---- MODULE Spec2Model ----
(***************************************************************************)
(* Bidirectional wavefront pathfinder of solver.py.                        *)
(*                                                                         *)
(* A numpy matrix is a function  [0..R-1 -> [0..C-1 -> Int]]  so that      *)
(* a[i][j] reads as in the source and coordinates are 0-based.             *)
(* find_shortest_path is cut into one action per loop iteration; the       *)
(* wall-clock measurements it returns (time.time_ns) are left out.         *)
(***************************************************************************)
EXTENDS Integers, Sequences, FiniteSets, TLC

VARIABLES
    labyrinth_map,  \* argument of the current call
    visualize,      \* argument of the current call
    pc,             \* position of the caller / of find_shortest_path
    states,         \* module global: list of snapshots
    walls,          \* module global: wall mask (None before the first call)
    wall_mask,      \* local
    state,          \* local: the distance field
    min_dist,       \* local: a float, kept as the fraction num/den
    step,           \* local
    meetpoints,     \* local: None, or np.argwhere(collision)
    prev_max_pos,   \* local
    prev_min_neg,   \* local
    path,           \* local
    xy,             \* local: the cursor (x, y) of the reconstruction walks
    ret,            \* value returned by the last call that returned
    calls,          \* history: number of calls made so far
    states_call,    \* history: for each entry of states, the call that appended it
    history,        \* history: the grid and the result of every call that returned
    gen             \* generate_random_labyrinth: its position and its locals

vars == <<labyrinth_map, visualize, pc, states, walls, wall_mask, state, min_dist,
          step, meetpoints, prev_max_pos, prev_min_neg, path, xy, ret, calls,
          states_call, history, gen>>

locals == <<wall_mask, state, min_dist, step, meetpoints, prev_max_pos,
            prev_min_neg, path, xy>>

(***************************************************************************)
(* Bounds of the model.                                                    *)
(***************************************************************************)
\* Accepted grids of the single-call specification have at most MaxCells cells.
MaxCells == 8
\* Of these, the grids of a single row or a single column at most MaxLine.
MaxLine == 6
\* Its grids over the whole vocabulary, accepted or not, at most MaxAnyCells.
MaxAnyCells == 4
\* Number of calls of the repeated-call specification.
MaxCalls == 3
\* Sizes s passed to generate_random_labyrinth.
MaxSize == 2

\* Each loop is cut off once its counter (step, the length of path) exceeds
\* the number of cells of the grid.
LoopCap(a) == Cardinality(DOMAIN a) * Cardinality(DOMAIN a[0])

(***************************************************************************)
(* Constants of the program.                                               *)
(***************************************************************************)
\* np.iinfo(np.int64).max, narrowed to 32 bits, the widest TLC integer. It
\* is only ever used as the "no such neighbour" sentinel; field values are
\* bounded by the number of cells, so the narrowing changes no comparison.
INT_MAX == 2147483647
INT_MIN == -INT_MAX - 1
\* np.inf of line 208: larger than every field value.
INF == 2147483647
\* the initial "largest" of line 227
NEG_START == -1000000000

\* Python's None, for the globals and locals that start as None.
None == <<>>

(***************************************************************************)
(* Matrices.                                                               *)
(***************************************************************************)
NRows(a) == Cardinality(DOMAIN a)
NCols(a) == Cardinality(DOMAIN a[0])
Cells(a) == (0..(NRows(a) - 1)) \X (0..(NCols(a) - 1))

\* A matrix from its literal rows, as np.array([[...], ...]).
Matrix(rows) ==
    [i \in 0..(Len(rows) - 1) |-> [j \in 0..(Len(rows[1]) - 1) |-> rows[i + 1][j + 1]]]

MatricesOf(r, c, vals) == [0..(r - 1) -> [0..(c - 1) -> vals]]

Abs(n) == IF n < 0 THEN -n ELSE n

\* np.argwhere(cond): the coordinates of the cells in S, in row-major order.
RECURSIVE ArgwhereFrom(_, _, _, _)
ArgwhereFrom(S, r, c, k) ==
    IF k >= r * c THEN <<>>
    ELSE LET cell == <<k \div c, k % c>>
         IN  (IF cell \in S THEN <<cell>> ELSE <<>>) \o ArgwhereFrom(S, r, c, k + 1)

Argwhere(a, S) == ArgwhereFrom(S, NRows(a), NCols(a), 0)

(***************************************************************************)
(* Shift functions.                                                        *)
(***************************************************************************)
shift_down(a) ==
    [i \in DOMAIN a |-> [j \in DOMAIN a[i] |-> IF i >= 1 THEN a[i - 1][j] ELSE 0]]

shift_up(a) ==
    LET r == NRows(a)
    IN  [i \in DOMAIN a |-> [j \in DOMAIN a[i] |-> IF i + 1 < r THEN a[i + 1][j] ELSE 0]]

\* mutant: np.roll, the leftmost column comes back in on the right
shift_left_roll(a) ==
    LET c == NCols(a)
    IN  [i \in DOMAIN a |-> [j \in DOMAIN a[i] |-> a[i][(j + 1) % c]]]

shift_left(a) ==
    LET c == NCols(a)
    IN  [i \in DOMAIN a |-> [j \in DOMAIN a[i] |-> IF j + 1 < c THEN a[i][j + 1] ELSE 0]]

shift_right(a) ==
    [i \in DOMAIN a |-> [j \in DOMAIN a[i] |-> IF j >= 1 THEN a[i][j - 1] ELSE 0]]

(***************************************************************************)
(* initialize                                                              *)
(***************************************************************************)
\* np.argwhere(labyrinth_map == v)
Where(m, v) == Argwhere(m, {c \in Cells(m) : m[c[1]][c[2]] = v})

\* mutant: the test only asks for a start and a finish to be present
AcceptedIfPresent(m) == Len(Where(m, 2)) >= 1 /\ Len(Where(m, 3)) >= 1

\* the test of line 106
Accepted(m) == Len(Where(m, 2)) = 1 /\ Len(Where(m, 3)) = 1

StartOf(m) == Where(m, 2)[1]
FinishOf(m) == Where(m, 3)[1]

\* line 113: a true division, kept as a fraction
\* mutant: the Manhattan bound without the halving
MinDistNotHalved(m) ==
    LET start == StartOf(m)
        finish == FinishOf(m)
    IN  [num |-> Abs(start[1] - finish[1]) + Abs(start[2] - finish[2]) - 1, den |-> 1]

MinDist(m) ==
    LET start == StartOf(m)
        finish == FinishOf(m)
    IN  [num |-> Abs(start[1] - finish[1]) + Abs(start[2] - finish[2]) - 1, den |-> 2]

\* mutant: only the empty cells are open, the start and the finish are not
WallMaskEmptyOnly(m) ==
    [i \in DOMAIN m |-> [j \in DOMAIN m[i] |-> IF m[i][j] = 1 THEN 1 ELSE 0]]

WallMask(m) == [i \in DOMAIN m |-> [j \in DOMAIN m[i] |-> IF m[i][j] = 0 THEN 0 ELSE 1]]

\* mutant: the seeds are swapped, -1 at the start and +1 at the finish
InitialStateSwapped(m) ==
    LET start == Where(m, 2)[1]
        finish == Where(m, 3)[1]
        zeros == [i \in DOMAIN m |-> [j \in DOMAIN m[i] |-> 0]]
        s1 == [zeros EXCEPT ![start[1]][start[2]] = -1]
    IN  [s1 EXCEPT ![finish[1]][finish[2]] = 1]

InitialState(m) ==
    LET start == StartOf(m)
        finish == FinishOf(m)
        zeros == [i \in DOMAIN m |-> [j \in DOMAIN m[i] |-> 0]]
        s1 == [zeros EXCEPT ![start[1]][start[2]] = 1]
    IN  [s1 EXCEPT ![finish[1]][finish[2]] = -1]

(***************************************************************************)
(* One iteration of the propagation loop.                                  *)
(***************************************************************************)
\* step >= min_dist, an integer against the fraction
StepReached(s, q) == s * q.den >= q.num

\* mutant: only the shift_up view is compared
CollisionUpOnly(st) ==
    LET up == shift_up(st)
    IN  {c \in Cells(st) : up[c[1]][c[2]] * st[c[1]][c[2]] < 0}

\* line 161
Collision(st) ==
    LET up == shift_up(st)
        right == shift_right(st)
    IN  {c \in Cells(st) : \/ up[c[1]][c[2]] * st[c[1]][c[2]] < 0
                           \/ right[c[1]][c[2]] * st[c[1]][c[2]] < 0}

SetMin(S) == CHOOSE v \in S : \A w \in S : v <= w
SetMax(S) == CHOOSE v \in S : \A w \in S : v >= w

\* mutant: the wall mask is left out of the update mask
NewDistancesThroughWalls(st, wm) ==
    LET neighbors(i, j) == {shift_up(st)[i][j], shift_down(st)[i][j],
                            shift_left(st)[i][j], shift_right(st)[i][j]}
        pos(i, j) == SetMin({IF n > 0 THEN n ELSE INT_MAX : n \in neighbors(i, j)})
        neg(i, j) == SetMax({IF n < 0 THEN n ELSE INT_MIN : n \in neighbors(i, j)})
        nd(i, j) == IF pos(i, j) # INT_MAX THEN pos(i, j) + 1
                    ELSE IF neg(i, j) # INT_MIN THEN neg(i, j) - 1
                    ELSE 0
    IN  [i \in DOMAIN st |-> [j \in DOMAIN st[i] |->
            nd(i, j) * (IF st[i][j] = 0 THEN 1 ELSE 0)]]

\* mutant: the update is masked by the wall mask only, visited cells included
NewDistancesOverVisited(st, wm) ==
    LET neighbors(i, j) == {shift_up(st)[i][j], shift_down(st)[i][j],
                            shift_left(st)[i][j], shift_right(st)[i][j]}
        pos(i, j) == SetMin({IF n > 0 THEN n ELSE INT_MAX : n \in neighbors(i, j)})
        neg(i, j) == SetMax({IF n < 0 THEN n ELSE INT_MIN : n \in neighbors(i, j)})
        nd(i, j) == IF pos(i, j) # INT_MAX THEN pos(i, j) + 1
                    ELSE IF neg(i, j) # INT_MIN THEN neg(i, j) - 1
                    ELSE 0
    IN  [i \in DOMAIN st |-> [j \in DOMAIN st[i] |-> nd(i, j) * wm[i][j]]]

\* lines 168-176
\* mutant: the negative front is tried first
NewDistancesNegFirst(st, wm) ==
    LET up == shift_up(st)
        right == shift_right(st)
        down == shift_down(st)
        left == shift_left(st)
        neighbors(i, j) == {up[i][j], down[i][j], left[i][j], right[i][j]}
        pos(i, j) == SetMin({IF n > 0 THEN n ELSE INT_MAX : n \in neighbors(i, j)})
        neg(i, j) == SetMax({IF n < 0 THEN n ELSE INT_MIN : n \in neighbors(i, j)})
        nd(i, j) == IF neg(i, j) # INT_MIN THEN neg(i, j) - 1
                    ELSE IF pos(i, j) # INT_MAX THEN pos(i, j) + 1
                    ELSE 0
    IN  [i \in DOMAIN st |-> [j \in DOMAIN st[i] |->
            nd(i, j) * (IF st[i][j] = 0 THEN wm[i][j] ELSE 0)]]

NewDistances(st, wm) ==
    LET up == shift_up(st)
        right == shift_right(st)
        down == shift_down(st)
        left == shift_left(st)
        neighbors(i, j) == {up[i][j], down[i][j], left[i][j], right[i][j]}
        pos(i, j) == SetMin({IF n > 0 THEN n ELSE INT_MAX : n \in neighbors(i, j)})
        neg(i, j) == SetMax({IF n < 0 THEN n ELSE INT_MIN : n \in neighbors(i, j)})
        nd(i, j) == IF pos(i, j) # INT_MAX THEN pos(i, j) + 1
                    ELSE IF neg(i, j) # INT_MIN THEN neg(i, j) - 1
                    ELSE 0
    IN  [i \in DOMAIN st |-> [j \in DOMAIN st[i] |->
            nd(i, j) * (IF st[i][j] = 0 THEN wm[i][j] ELSE 0)]]

\* line 178
Propagated(st, wm) ==
    LET nd == NewDistances(st, wm)
    IN  [i \in DOMAIN st |-> [j \in DOMAIN st[i] |-> st[i][j] + nd[i][j]]]

\* lines 184-185
MaxPos(st) == SetMax({IF st[c[1]][c[2]] > 0 THEN st[c[1]][c[2]] ELSE INT_MIN : c \in Cells(st)})
MinNeg(st) == SetMin({IF st[c[1]][c[2]] < 0 THEN st[c[1]][c[2]] ELSE INT_MAX : c \in Cells(st)})

\* mutant: the fronts must be of equal depth
NoProgressStrict(max_pos, min_neg, pmax, pmin) ==
    \/ Abs(max_pos + min_neg) > 0
    \/ (min_neg = pmin /\ max_pos = pmax)

\* mutant: the test for unchanged extrema is left out
NoProgressSumOnly(max_pos, min_neg, pmax, pmin) ==
    Abs(max_pos + min_neg) > 1

\* line 188
NoProgress(max_pos, min_neg, pmax, pmin) ==
    \/ Abs(max_pos + min_neg) > 1
    \/ (min_neg = pmin /\ max_pos = pmax)

(***************************************************************************)
(* Reconstruction.                                                         *)
(***************************************************************************)
\* lines 209-213 and 228-232: the in-bounds neighbours, in the order tried
\* mutant: the neighbour (x, y+1) is left out
NeighborListNoLast(st, x, y) ==
    (IF x >= 1 THEN <<<<x - 1, y>>>> ELSE <<>>)
    \o (IF y >= 1 THEN <<<<x, y - 1>>>> ELSE <<>>)
    \o (IF x < NRows(st) - 1 THEN <<<<x + 1, y>>>> ELSE <<>>)

NeighborList(st, x, y) ==
    (IF x >= 1 THEN <<<<x - 1, y>>>> ELSE <<>>)
    \o (IF y >= 1 THEN <<<<x, y - 1>>>> ELSE <<>>)
    \o (IF x < NRows(st) - 1 THEN <<<<x + 1, y>>>> ELSE <<>>)
    \o (IF y < NCols(st) - 1 THEN <<<<x, y + 1>>>> ELSE <<>>)

\* lines 215-218: the for loop, from index k on, with the running "smallest"
RECURSIVE SmallestFrom(_, _, _, _)
SmallestFrom(st, nbs, k, smallest) ==
    IF k > Len(nbs) THEN smallest
    ELSE LET val == st[nbs[k][1]][nbs[k][2]]
         IN  SmallestFrom(st, nbs, k + 1,
                IF val > 0 /\ val < smallest[2] THEN <<nbs[k], val>> ELSE smallest)

\* mutant: any positive neighbour is taken, the last one tried wins
RECURSIVE LastPositiveFrom(_, _, _, _)
LastPositiveFrom(st, nbs, k, smallest) ==
    IF k > Len(nbs) THEN smallest
    ELSE LET val == st[nbs[k][1]][nbs[k][2]]
         IN  LastPositiveFrom(st, nbs, k + 1,
                IF val > 0 THEN <<nbs[k], val>> ELSE smallest)

SmallestLastPositive(st, x, y) ==
    LastPositiveFrom(st, NeighborList(st, x, y), 1, <<<<0, 0>>, INF>>)

Smallest(st, x, y) == SmallestFrom(st, NeighborList(st, x, y), 1, <<<<0, 0>>, INF>>)

\* lines 234-237
RECURSIVE LargestFrom(_, _, _, _)
LargestFrom(st, nbs, k, largest) ==
    IF k > Len(nbs) THEN largest
    ELSE LET val == st[nbs[k][1]][nbs[k][2]]
         IN  LargestFrom(st, nbs, k + 1,
                IF val < 0 /\ val > largest[2] THEN <<nbs[k], val>> ELSE largest)

Largest(st, x, y) == LargestFrom(st, NeighborList(st, x, y), 1, <<<<0, 0>>, NEG_START>>)

\* mutant: the start walk is not reversed
ReverseForgotten(s) == s

\* list.reverse()
Reverse(s) == [k \in 1..Len(s) |-> s[Len(s) + 1 - k]]

(***************************************************************************)
(* Inputs.                                                                 *)
(***************************************************************************)
ShapesUpTo(n) == {sh \in (1..n) \X (1..n) : sh[1] * sh[2] <= n}

\* the shapes of the single-call specification
MainShapes ==
    {sh \in ShapesUpTo(MaxCells) : (sh[1] >= 2 /\ sh[2] >= 2) \/ sh[1] * sh[2] <= MaxLine}

\* every grid of the shape with exactly one 2 and one 3
ValidGridsOf(r, c) ==
    LET cells == (0..(r - 1)) \X (0..(c - 1))
    IN  {[i \in 0..(r - 1) |-> [j \in 0..(c - 1) |->
            IF <<i, j>> = s THEN 2 ELSE IF <<i, j>> = f THEN 3
            ELSE IF <<i, j>> \in w THEN 0 ELSE 1]] :
         <<s, f, w>> \in {t \in cells \X cells \X SUBSET cells :
                            t[1] # t[2] /\ t[1] \notin t[3] /\ t[2] \notin t[3]}}

MainGrids == UNION {ValidGridsOf(sh[1], sh[2]) : sh \in MainShapes}

\* every grid over the vocabulary {0, 1, 2, 3}
AnyGridsUpTo(n) == UNION {MatricesOf(sh[1], sh[2], 0..3) : sh \in ShapesUpTo(n)}

\* scenario 1 of the specification's testable properties
Scenario1 == Matrix(<< <<0, 2, 1, 0, 0>>,
                       <<0, 1, 0, 1, 0>>,
                       <<1, 1, 1, 1, 1>>,
                       <<1, 1, 1, 0, 1>>,
                       <<1, 1, 1, 3, 1>> >>)

\* the grid of test_initialization
TestGrid == Matrix(<< <<0, 2, 1, 1, 0>>,
                      <<0, 1, 0, 1, 0>>,
                      <<1, 1, 1, 1, 0>>,
                      <<1, 1, 1, 0, 0>>,
                      <<1, 1, 3, 1, 0>> >>)

\* scenario 2: Start and Finish 4-adjacent
Scenario2 == Matrix(<< <<1, 2>>,
                       <<1, 3>> >>)

\* scenario 3: Start fully enclosed by Walls
Scenario3 == Matrix(<< <<2, 0, 1>>,
                       <<0, 1, 1>>,
                       <<1, 1, 3>> >>)

\* scenario 4: exactly two Start-marked cells
Scenario4 == Matrix(<< <<2, 1>>,
                       <<2, 3>> >>)

NamedGrids == {Scenario1, Scenario2, Scenario3, Scenario4, TestGrid}

NoRet == [tag |-> "unset", path |-> <<>>, step |-> 0]

\* generate_random_labyrinth has not been called
NoGen == [pc |-> "idle", s |-> 0, lab_map |-> None, a |-> 0, b |-> 0, c |-> 0, d |-> 0]

(***************************************************************************)
(* Actions.                                                                *)
(***************************************************************************)
\* mutant: the array itself is appended, so every entry shows the current field
SnapshotNoCopy(trace, st) == [k \in 1..(Len(trace) + 1) |-> st]

\* states.append(state.copy())
Snapshot(trace, st) == Append(trace, st)

\* mutant: prev_max_pos and prev_min_neg survive from the previous call
CallPrevKept ==
    /\ pc = "call"
    /\ Accepted(labyrinth_map)
    /\ wall_mask' = WallMask(labyrinth_map)
    /\ state' = InitialState(labyrinth_map)
    /\ min_dist' = MinDist(labyrinth_map)
    /\ walls' = wall_mask'
    /\ step' = 1
    /\ meetpoints' = None
    /\ states' = Snapshot(states, state')
    /\ states_call' = Append(states_call, calls + 1)
    /\ calls' = calls + 1
    /\ pc' = "loop"
    /\ UNCHANGED <<labyrinth_map, visualize, path, xy, ret, prev_min_neg, prev_max_pos,
                   history, gen>>

\* lines 140-153, initialize accepting the grid
Call ==
    /\ pc = "call"
    /\ Accepted(labyrinth_map)
    /\ wall_mask' = WallMask(labyrinth_map)
    /\ state' = InitialState(labyrinth_map)
    /\ min_dist' = MinDist(labyrinth_map)
    /\ walls' = wall_mask'
    /\ step' = 1
    /\ meetpoints' = None
    /\ states' = Snapshot(states, state')
    /\ states_call' = Append(states_call, calls + 1)
    /\ prev_min_neg' = 0
    /\ prev_max_pos' = 0
    /\ calls' = calls + 1
    /\ pc' = "loop"
    /\ UNCHANGED <<labyrinth_map, visualize, path, xy, ret>>
    /\ UNCHANGED <<history, gen>>

\* lines 144, 103-108: initialize prints the error and calls sys.exit()
CallRejected ==
    /\ pc = "call"
    /\ ~Accepted(labyrinth_map)
    /\ calls' = calls + 1
    /\ pc' = "exited"
    /\ UNCHANGED <<labyrinth_map, visualize, states, states_call, walls, ret, locals>>
    /\ UNCHANGED <<history, gen>>

\* lines 155-165: the iteration that finds the fronts touching
\* mutant: the distance update is applied before leaving the loop
DetectCollisionThenPropagate ==
    /\ pc = "loop"
    /\ StepReached(step, min_dist)
    /\ LET collision == Collision(state)
       IN  /\ collision # {}
           /\ meetpoints' = Argwhere(state, collision)
    /\ state' = Propagated(state, wall_mask)
    /\ step' = step + 1
    /\ pc' = "found"
    /\ UNCHANGED <<labyrinth_map, visualize, states, states_call, walls, wall_mask,
                   min_dist, prev_max_pos, prev_min_neg, path, xy, ret, calls>>
    /\ UNCHANGED <<history, gen>>

DetectCollision ==
    /\ pc = "loop"
    /\ StepReached(step, min_dist)
    /\ LET collision == Collision(state)
       IN  /\ collision # {}
           /\ meetpoints' = Argwhere(state, collision)
    /\ pc' = "found"
    /\ UNCHANGED <<labyrinth_map, visualize, states, states_call, walls, wall_mask,
                   state, min_dist, step, prev_max_pos, prev_min_neg, path, xy, ret,
                   calls>>
    /\ UNCHANGED <<history, gen>>

\* lines 155-192: an iteration that propagates, and then goes on or stalls
PropagateStep ==
    /\ pc = "loop"
    /\ ~(StepReached(step, min_dist) /\ Collision(state) # {})
    /\ step <= LoopCap(state)
    /\ LET new_state == Propagated(state, wall_mask)
           max_pos == MaxPos(new_state)
           min_neg == MinNeg(new_state)
       IN  /\ state' = new_state
           /\ step' = step + 1
           /\ states' = IF visualize THEN Snapshot(states, new_state) ELSE states
           /\ states_call' = IF visualize THEN Append(states_call, calls) ELSE states_call
           /\ IF NoProgress(max_pos, min_neg, prev_max_pos, prev_min_neg)
              THEN /\ ret' = [tag |-> "none", path |-> <<>>, step |-> step + 1]
                   /\ history' = Append(history, [map |-> labyrinth_map, ret |-> ret'])
                   /\ pc' = "returned"
                   /\ UNCHANGED <<prev_max_pos, prev_min_neg>>
              ELSE /\ prev_max_pos' = max_pos
                   /\ prev_min_neg' = min_neg
                   /\ pc' = "loop"
                   /\ UNCHANGED <<ret, history>>
    /\ UNCHANGED <<labyrinth_map, visualize, walls, wall_mask, min_dist, meetpoints,
                   path, xy, calls, gen>>

\* lines 199-204
BeginReconstruction ==
    /\ pc = "found"
    /\ xy' = meetpoints[1]
    /\ path' = <<meetpoints[1]>>
    /\ pc' = "to_start"
    /\ UNCHANGED <<labyrinth_map, visualize, states, states_call, walls, wall_mask,
                   state, min_dist, step, meetpoints, prev_max_pos, prev_min_neg, ret,
                   calls>>
    /\ UNCHANGED <<history, gen>>

\* lines 207-221: one iteration of the walk to the start
WalkToStart ==
    /\ pc = "to_start"
    /\ state[xy[1]][xy[2]] # 1
    /\ Len(path) <= LoopCap(state)
    /\ xy' = Smallest(state, xy[1], xy[2])[1]
    /\ path' = Append(path, xy')
    /\ UNCHANGED <<labyrinth_map, visualize, pc, states, states_call, walls, wall_mask,
                   state, min_dist, step, meetpoints, prev_max_pos, prev_min_neg, ret,
                   calls>>
    /\ UNCHANGED <<history, gen>>

\* lines 207, 222-225: the walk has reached the +1 cell
TurnAround ==
    /\ pc = "to_start"
    /\ state[xy[1]][xy[2]] = 1
    /\ path' = Reverse(path)
    /\ xy' = meetpoints[1]
    /\ pc' = "to_finish"
    /\ UNCHANGED <<labyrinth_map, visualize, states, states_call, walls, wall_mask,
                   state, min_dist, step, meetpoints, prev_max_pos, prev_min_neg, ret,
                   calls>>
    /\ UNCHANGED <<history, gen>>

\* lines 226-240: one iteration of the walk to the finish
WalkToFinish ==
    /\ pc = "to_finish"
    /\ state[xy[1]][xy[2]] # -1
    /\ Len(path) <= LoopCap(state)
    /\ xy' = Largest(state, xy[1], xy[2])[1]
    /\ path' = Append(path, xy')
    /\ UNCHANGED <<labyrinth_map, visualize, pc, states, states_call, walls, wall_mask,
                   state, min_dist, step, meetpoints, prev_max_pos, prev_min_neg, ret,
                   calls>>
    /\ UNCHANGED <<history, gen>>

\* lines 226, 242-243
Return ==
    /\ pc = "to_finish"
    /\ state[xy[1]][xy[2]] = -1
    /\ ret' = [tag |-> "path", path |-> path, step |-> step]
    /\ history' = Append(history, [map |-> labyrinth_map, ret |-> ret'])
    /\ pc' = "returned"
    /\ UNCHANGED <<labyrinth_map, visualize, states, states_call, walls, locals, calls,
                   gen>>

\* a caller passes its arguments: one call, on an accepted grid or on any
\* small grid over the vocabulary
Invoke ==
    /\ pc = "idle"
    /\ labyrinth_map' \in MainGrids \cup NamedGrids \cup AnyGridsUpTo(MaxAnyCells)
    /\ visualize' \in BOOLEAN
    /\ pc' = "call"
    /\ UNCHANGED <<states, states_call, walls, ret, locals, calls>>
    /\ UNCHANGED <<history, gen>>

\* a caller that calls again and again, as the loop of test_speed does, here
\* on the grids of the scenarios
InvokeRepeatedly ==
    /\ pc \in {"idle", "returned"}
    /\ calls < MaxCalls
    /\ labyrinth_map' \in NamedGrids
    /\ visualize' \in BOOLEAN
    /\ pc' = "call"
    /\ UNCHANGED <<states, states_call, walls, ret, locals, calls>>
    /\ UNCHANGED <<history, gen>>

(***************************************************************************)
(* generate_random_labyrinth, every outcome of its random draws.           *)
(***************************************************************************)
\* mutant: the loop that redraws a is missing
RedrawNever(a, b, c, d) == FALSE

\* line 79: the condition of the while loop
Redraw(a, b, c, d) == a = c /\ b = d

\* lines 82-83
Placed(lab_map, a, b, c, d) ==
    LET with_start == [lab_map EXCEPT ![a][b] = 2]
    IN  [with_start EXCEPT ![c][d] = 3]

\* lines 75-78: the wall draw (rand < complexity gives 0, else 1) and the
\* four coordinates
GenDraw ==
    /\ gen.pc = "idle"
    /\ \E s \in 1..MaxSize :
          \E lab_map \in MatricesOf(s, s, {0, 1}) :
             \E a \in 0..(s - 1), b \in 0..(s - 1), c \in 0..(s - 1), d \in 0..(s - 1) :
                gen' = [pc |-> "while", s |-> s, lab_map |-> lab_map,
                        a |-> a, b |-> b, c |-> c, d |-> d]
    /\ UNCHANGED <<labyrinth_map, visualize, pc, states, states_call, walls, ret, locals,
                   calls, history>>

\* lines 79-80: one iteration of the while loop
GenRedraw ==
    /\ gen.pc = "while"
    /\ Redraw(gen.a, gen.b, gen.c, gen.d)
    /\ \E a \in 0..(gen.s - 1) : gen' = [gen EXCEPT !.a = a]
    /\ UNCHANGED <<labyrinth_map, visualize, pc, states, states_call, walls, ret, locals,
                   calls, history>>

\* lines 79, 82-85
GenReturn ==
    /\ gen.pc = "while"
    /\ ~Redraw(gen.a, gen.b, gen.c, gen.d)
    /\ gen' = [gen EXCEPT !.pc = "returned",
                          !.lab_map = Placed(gen.lab_map, gen.a, gen.b, gen.c, gen.d)]
    /\ UNCHANGED <<labyrinth_map, visualize, pc, states, states_call, walls, ret, locals,
                   calls, history>>

(***************************************************************************)
(* Specifications.                                                         *)
(***************************************************************************)
\* the module has been imported: no call has been made
Init ==
    /\ pc = "idle"
    /\ labyrinth_map = None
    /\ visualize = FALSE
    /\ states = <<>>
    /\ states_call = <<>>
    /\ walls = None
    /\ wall_mask = None
    /\ state = None
    /\ min_dist = [num |-> 0, den |-> 1]
    /\ step = 0
    /\ meetpoints = None
    /\ prev_max_pos = 0
    /\ prev_min_neg = 0
    /\ path = <<>>
    /\ xy = <<0, 0>>
    /\ ret = NoRet
    /\ calls = 0
    /\ history = <<>>
    /\ gen = NoGen

\* the steps of find_shortest_path on an accepted grid
Run ==
    \/ Call
    \/ DetectCollision
    \/ PropagateStep
    \/ BeginReconstruction
    \/ WalkToStart
    \/ TurnAround
    \/ WalkToFinish
    \/ Return

\* one call
Next == Invoke \/ CallRejected \/ Run

Spec == Init /\ [][Next]_vars

\* repeated calls
NextCalls == InvokeRepeatedly \/ CallRejected \/ Run

SpecCalls == Init /\ [][NextCalls]_vars

\* one call of generate_random_labyrinth
NextGen == GenDraw \/ GenRedraw \/ GenReturn

SpecGen == Init /\ [][NextGen]_vars

(***************************************************************************)
(* Reference notions the claims are stated with, independent of the        *)
(* definitions above.                                                      *)
(***************************************************************************)
Count(m, v) == Cardinality({c \in Cells(m) : m[c[1]][c[2]] = v})
OneStartOneFinish(m) == Count(m, 2) = 1 /\ Count(m, 3) = 1
StartCell(m) == CHOOSE c \in Cells(m) : m[c[1]][c[2]] = 2
FinishCell(m) == CHOOSE c \in Cells(m) : m[c[1]][c[2]] = 3

Adjacent(a, b) == Abs(a[1] - b[1]) + Abs(a[2] - b[2]) = 1

OpenNeighbours(m, c) == {d \in Cells(m) : Adjacent(c, d) /\ m[d[1]][d[2]] # 0}

\* single-source breadth-first search; -1 when the target is not reached
RECURSIVE BfsDistance(_, _, _, _, _)
BfsDistance(m, frontier, seen, target, d) ==
    IF target \in frontier THEN d
    ELSE LET next == UNION {OpenNeighbours(m, c) : c \in frontier} \ seen
         IN  IF next = {} THEN -1
             ELSE BfsDistance(m, next, seen \cup next, target, d + 1)

ShortestDistance(m) ==
    BfsDistance(m, {StartCell(m)}, {StartCell(m)}, FinishCell(m), 0)

Connected(m) == ShortestDistance(m) >= 0

Returned == pc = "returned"
ReturnedPath == pc = "returned" /\ ret.tag = "path"
ReturnedNone == pc = "returned" /\ ret.tag = "none"

\* p is a walk over non-wall cells of m from the start to the finish
IsStartFinishWalk(m, p) ==
    /\ Len(p) >= 1
    /\ \A k \in 1..Len(p) : p[k] \in Cells(m) /\ m[p[k][1]][p[k][2]] # 0
    /\ \A k \in 1..(Len(p) - 1) : Adjacent(p[k], p[k + 1])
    /\ p[1] = StartCell(m)
    /\ p[Len(p)] = FinishCell(m)

(***************************************************************************)
(* Claims.                                                                 *)
(***************************************************************************)
\* C1: on a grid with exactly one Start and one Finish, a returned Path has
\* every consecutive pair of coordinates 4-adjacent, every coordinate on a
\* non-Wall cell, the Start cell first and the Finish cell last.
C1_ValidPath ==
    (ReturnedPath /\ OneStartOneFinish(labyrinth_map))
        => IsStartFinishWalk(labyrinth_map, ret.path)

\* a path with a bend around a wall has been returned
C1_Witness ==
    /\ ReturnedPath
    /\ Len(ret.path) >= 5
    /\ Count(labyrinth_map, 0) >= 1
    /\ \E k \in 1..(Len(ret.path) - 2) :
          /\ ret.path[k][1] # ret.path[k + 2][1]
          /\ ret.path[k][2] # ret.path[k + 2][2]

\* C2: the number of coordinates of a returned Path minus one is the
\* shortest-path distance from Start to Finish found by an independent
\* breadth-first search over 4-adjacent non-Wall cells.
C2_Optimal ==
    (ReturnedPath /\ OneStartOneFinish(labyrinth_map))
        => Len(ret.path) - 1 = ShortestDistance(labyrinth_map)

\* a path was returned where a detour around walls was needed
C2_Witness ==
    /\ ReturnedPath
    /\ LET s == StartCell(labyrinth_map)
           f == FinishCell(labyrinth_map)
       IN  Len(ret.path) - 1 > Abs(s[1] - f[1]) + Abs(s[2] - f[2])

\* C3: when Start and Finish are connected the call ends in Collided with a
\* non-empty Path; the stall check never ends it with None.
C3_ConnectedGivesPath ==
    (Returned /\ OneStartOneFinish(labyrinth_map) /\ Connected(labyrinth_map))
        => (~ReturnedNone /\ ret.tag = "path" /\ Len(ret.path) >= 1)

\* a connected grid at even distance, one front boxed in on the last step
C3_Witness ==
    /\ ReturnedPath
    /\ Connected(labyrinth_map)
    /\ MaxPos(state) + MinNeg(state) = 1
    /\ step >= 3

\* C4: when Start and Finish are not connected the call ends in Stalled and
\* returns None as the path: no collision is found and no walk is started.
C4_DisconnectedGivesNone ==
    (/\ pc \in {"found", "to_start", "to_finish", "returned"}
     /\ OneStartOneFinish(labyrinth_map)
     /\ ~Connected(labyrinth_map))
        => (Returned /\ ret.tag = "none" /\ ret.path = <<>>)

\* None was returned after both fronts had spread
C4_Witness ==
    /\ ReturnedNone
    /\ ~Connected(labyrinth_map)
    /\ ret.step >= 3

\* C5: on a grid with exactly one Start and one Finish the call terminates:
\* the propagation loop is left and both reconstruction loops end.
\* Stated with the bound that makes it a property of finite runs: every
\* iteration of the propagation loop starts with step at most the number of
\* cells, and every iteration of either walk with a path at most that long.
\* The cut-offs in the guards of PropagateStep, WalkToStart and WalkToFinish
\* are therefore never what stops a loop, and each loop exits after at most
\* that many iterations.
C5_Terminates ==
    (/\ pc \in {"loop", "to_start", "to_finish"}
     /\ OneStartOneFinish(labyrinth_map))
        => /\ pc = "loop" => step <= LoopCap(state)
           /\ pc \in {"to_start", "to_finish"} => Len(path) <= LoopCap(state)

\* a call has returned after the longest propagation a grid of 8 cells
\* allows and a walk in both directions
C5_Witness ==
    /\ ReturnedPath
    /\ OneStartOneFinish(labyrinth_map)
    /\ step >= 4
    /\ state[meetpoints[1][1]][meetpoints[1][2]] \notin {1, -1}

\* C6: a grid whose count of Start cells or of Finish cells is not 1 is
\* rejected before any propagation step: nothing is returned and no distance
\* field, snapshot or wall mask is created or changed.
C6_RejectedLeavesNoState ==
    [][(pc = "call" /\ ~OneStartOneFinish(labyrinth_map))
          => /\ pc' = "exited"
             /\ UNCHANGED <<ret, states, walls, locals>>]_vars

\* a grid with two Start cells has been rejected
C6_Witness ==
    /\ pc = "exited"
    /\ Count(labyrinth_map, 2) = 2
    /\ Count(labyrinth_map, 3) = 1
    /\ states = <<>> /\ walls = None /\ state = None /\ ret = NoRet

\* C7: a Wall cell's entry of the distance field is 0 in every state of a
\* solve, and an entry that is nonzero is not changed by any later step.
C7_WallsZero ==
    pc \in {"loop", "found", "to_start", "to_finish", "returned"}
        => \A c \in Cells(labyrinth_map) :
              labyrinth_map[c[1]][c[2]] = 0 => state[c[1]][c[2]] = 0

C7_SetOnce ==
    pc \in {"loop", "found", "to_start", "to_finish"}
        => \A c \in Cells(state) :
              state[c[1]][c[2]] # 0 => state'[c[1]][c[2]] = state[c[1]][c[2]]

C7_FieldMonotone == [](C7_WallsZero) /\ [][C7_SetOnce]_vars

\* a front has gone around a wall: set cells next to a wall, after two steps
C7_Witness ==
    /\ pc = "loop"
    /\ step >= 3
    /\ \E c \in Cells(state) :
          /\ labyrinth_map[c[1]][c[2]] = 0
          /\ \E d \in Cells(state) : Adjacent(c, d) /\ Abs(state[d[1]][d[2]]) = 2
          /\ \E d \in Cells(state) : Adjacent(c, d) /\ Abs(state[d[1]][d[2]]) = 3

\* C8: when Start and Finish are 4-adjacent the collision is detected at
\* step 1 with the distance field still the initial one, and the returned
\* Path is Start then Finish.
C8_AdjacentEndpoints ==
    (/\ pc \in {"loop", "found", "to_start", "to_finish", "returned"}
     /\ OneStartOneFinish(labyrinth_map)
     /\ Adjacent(StartCell(labyrinth_map), FinishCell(labyrinth_map)))
        => /\ step = 1
           /\ state = [i \in DOMAIN labyrinth_map |-> [j \in DOMAIN labyrinth_map[i] |->
                         CASE labyrinth_map[i][j] = 2 -> 1
                           [] labyrinth_map[i][j] = 3 -> -1
                           [] OTHER -> 0]]
           /\ Returned =>
                 ret = [tag |-> "path",
                        path |-> <<StartCell(labyrinth_map), FinishCell(labyrinth_map)>>,
                        step |-> 1]

\* returned with the Finish to the right of the Start, the pair that only
\* the shift_right view sees
C8_Witness ==
    /\ ReturnedPath
    /\ OneStartOneFinish(labyrinth_map)
    /\ StartCell(labyrinth_map)[1] = FinishCell(labyrinth_map)[1]
    /\ StartCell(labyrinth_map)[2] + 1 = FinishCell(labyrinth_map)[2]

\* C9 (as claimed): on the 5x5 scenario grid the returned Path has length 9.
C9_ScenarioLength9 ==
    (labyrinth_map = Scenario1 /\ Returned)
        => (ret.tag = "path" /\ Len(ret.path) = 9)

\* C9 (amended): on the 5x5 scenario grid, Start at (0,1) and Finish at
\* (4,3), the returned Path is a connected Path of length 7, i.e. 6 moves.
C9_ScenarioLength7 ==
    (labyrinth_map = Scenario1 /\ Returned)
        => /\ StartCell(labyrinth_map) = <<0, 1>>
           /\ FinishCell(labyrinth_map) = <<4, 3>>
           /\ ret.tag = "path"
           /\ IsStartFinishWalk(labyrinth_map, ret.path)
           /\ Len(ret.path) = 7

C9_Witness == labyrinth_map = Scenario1 /\ Returned

\* C10: after any sequence of calls, the snapshot trace holds no snapshot
\* appended by a call earlier than the latest one.
C10_NoResidualSnapshots ==
    Returned => \A k \in 1..Len(states) : states_call[k] = calls

\* C11: calling again on the same grid gives the same Path (or the same
\* no-path result) and the same step count, whatever calls were made in
\* between and whatever the snapshot trace holds.
C11_SameGridSameResult ==
    \A i \in 1..Len(history) : \A j \in 1..Len(history) :
        history[i].map = history[j].map => history[i].ret = history[j].ret

\* a grid has been solved, then another one, then the first one again, with
\* snapshots of the earlier calls in the trace
C11_Witness ==
    /\ Len(history) = 3
    /\ history[1].map = history[3].map
    /\ history[2].map # history[1].map
    /\ history[1].ret.tag = "path"
    /\ history[2].ret.tag = "none"
    /\ Len(states) >= 5

Manhattan(m) ==
    Abs(StartCell(m)[1] - FinishCell(m)[1]) + Abs(StartCell(m)[2] - FinishCell(m)[2])

\* initialize has just returned to find_shortest_path
JustInitialized == pc = "loop" /\ step = 1

\* the wall mask and the distance field that C12 describes
C12_MaskAndField ==
    /\ DOMAIN wall_mask = DOMAIN labyrinth_map
    /\ \A c \in Cells(labyrinth_map) :
          /\ wall_mask[c[1]][c[2]] = (IF labyrinth_map[c[1]][c[2]] = 0 THEN 0 ELSE 1)
          /\ state[c[1]][c[2]] = (IF c = StartCell(labyrinth_map) THEN 1
                                  ELSE IF c = FinishCell(labyrinth_map) THEN -1
                                  ELSE 0)

C13_GeneratedGridAccepted ==
    (gen.pc = "returned" /\ gen.s >= 2)
        => /\ DOMAIN gen.lab_map = 0..(gen.s - 1)
           /\ \A i \in DOMAIN gen.lab_map :
                 /\ DOMAIN gen.lab_map[i] = 0..(gen.s - 1)
                 /\ \A j \in DOMAIN gen.lab_map[i] : gen.lab_map[i][j] \in 0..3
           /\ Count(gen.lab_map, 2) = 1
           /\ Count(gen.lab_map, 3) = 1
           /\ StartCell(gen.lab_map) # FinishCell(gen.lab_map)
           /\ Accepted(gen.lab_map)

\* a grid was returned after the first draw had put both on one cell and a
\* was drawn again
C13_Witness ==
    /\ gen.pc = "returned"
    /\ gen.s >= 2
    /\ gen.b = gen.d
    /\ gen.a # gen.c
    /\ Count(gen.lab_map, 0) >= 1

DistanceFrom(m, src, c) == BfsDistance(m, {src}, {src}, c, 0)

\* every positive entry k is on a cell at distance k-1 from the Start, every
\* negative entry -k on a cell at distance k-1 from the Finish
C14_EntriesAreDistances ==
    pc \in {"loop", "returned"}
        => \A c \in Cells(state) :
              LET v == state[c[1]][c[2]]
              IN  /\ v > 0 => DistanceFrom(labyrinth_map, StartCell(labyrinth_map), c) = v - 1
                  /\ v < 0 => DistanceFrom(labyrinth_map, FinishCell(labyrinth_map), c) = -v - 1

\* the n-th propagation step, taken with step = n, sets cells to magnitude n+1
C14_SetToStepPlusOne ==
    pc = "loop"
        => \A c \in Cells(state) :
              (state[c[1]][c[2]] = 0 /\ state'[c[1]][c[2]] # 0)
                  => Abs(state'[c[1]][c[2]]) = step + 1

\* C14: in every distance field reached during propagation, a cell first set
\* during the n-th propagation step holds magnitude n+1; each positive entry
\* k lies on a cell at shortest distance k-1 from the Start and each negative
\* entry -k on a cell at shortest distance k-1 from the Finish.
C14_FrontsAreBfsLayers == [](C14_EntriesAreDistances) /\ [][C14_SetToStepPlusOne]_vars

\* both fronts are three layers deep on a grid with walls
C14_Witness ==
    /\ pc = "loop"
    /\ step = 3
    /\ Count(labyrinth_map, 0) >= 1
    /\ \E c \in Cells(state) : state[c[1]][c[2]] = 3
    /\ \E c \in Cells(state) : state[c[1]][c[2]] = -3

\* two 4-adjacent cells hold values of opposite sign
Touching(st) ==
    \E c \in Cells(st) : \E d \in Cells(st) :
        Adjacent(c, d) /\ st[c[1]][c[2]] * st[d[1]][d[2]] < 0

C15_TouchingPastBound == (pc = "loop" /\ Touching(state)) => StepReached(step, min_dist)

C15_NoUpdateWhenTouching == (pc = "loop" /\ step' # step) => ~Touching(state)

\* C15: whenever the field at the top of a loop iteration contains two
\* 4-adjacent cells of opposite sign, the step counter has reached the lower
\* bound, so a propagation update is never applied to a field in which the two
\* fronts already touch.
C15_BoundNeverHidesCollision ==
    [](C15_TouchingPastBound) /\ [][C15_NoUpdateWhenTouching]_vars

\* the fronts touch after at least two propagation steps under a positive bound
C15_Witness ==
    /\ pc = "loop"
    /\ Touching(state)
    /\ min_dist.num >= 3
    /\ step >= 3

HasOppositeNeighbour(st, c) ==
    \E d \in Cells(st) : Adjacent(c, d) /\ st[c[1]][c[2]] * st[d[1]][d[2]] < 0

C16_ReportsIffTouching == pc = "loop" => ((Collision(state) # {}) <=> Touching(state))

C16_MeetPointsOnFronts ==
    pc \in {"found", "to_start", "to_finish"}
        => \A k \in 1..Len(meetpoints) :
              /\ state[meetpoints[k][1]][meetpoints[k][2]] # 0
              /\ HasOppositeNeighbour(state, meetpoints[k])

\* C16: the collision check, which compares each cell with its shift_up and
\* shift_right views only, reports a collision if and only if some pair of
\* 4-adjacent cells holds values of opposite sign, and every recorded meet
\* point is a nonzero cell that has a 4-neighbour of the opposite sign.
C16_CollisionCheckComplete == C16_ReportsIffTouching /\ C16_MeetPointsOnFronts

\* a collision recorded at two meet points at once
C16_Witness ==
    /\ pc = "found"
    /\ Len(meetpoints) >= 2
    /\ Touching(state)

Reconstructing == pc \in {"found", "to_start", "to_finish"}

C17_FieldFrozen ==
    ((pc = "loop" /\ pc' = "found") \/ Reconstructing)
        => (state' = state /\ step' = step)

C17_ReadsDetectedField ==
    Reconstructing => meetpoints = Argwhere(state, Collision(state))

\* C17: in the iteration in which a collision is detected the field and the
\* step counter are left unchanged; the field read during reconstruction is
\* the field on which the collision was detected and is not modified.
C17_DetectionLeavesField == [](C17_ReadsDetectedField) /\ [][C17_FieldFrozen]_vars

\* reconstruction under way on a field that a further update would have changed
C17_Witness ==
    /\ pc = "to_finish"
    /\ Len(path) >= 3
    /\ Propagated(state, wall_mask) # state

\* values of the in-grid 4-neighbours of c; a neighbour outside the grid
\* reads as 0 and so is never positive or negative
NeighbourValues(st, c) == {st[d[1]][d[2]] : d \in {e \in Cells(st) : Adjacent(c, e)}}

ExpectedAfterStep(st, c) ==
    LET positive == {n \in NeighbourValues(st, c) : n > 0}
        negative == {n \in NeighbourValues(st, c) : n < 0}
    IN  IF positive # {} THEN SetMin(positive) + 1
        ELSE IF negative # {} THEN SetMax(negative) - 1
        ELSE 0

C18_StepFromPreviousField ==
    (pc = "loop" /\ step' # step)
        => \A c \in Cells(state) :
              (state[c[1]][c[2]] = 0 /\ labyrinth_map[c[1]][c[2]] # 0)
                  => state'[c[1]][c[2]] = ExpectedAfterStep(state, c)

\* C18: one propagation step is computed entirely from the previous field
\* with out-of-grid neighbours read as 0: each unvisited non-wall cell becomes
\* (minimum positive neighbour) + 1 if it has a positive neighbour, even when
\* it also has a negative one; otherwise (maximum negative neighbour) - 1 if
\* it has a negative neighbour; otherwise it stays 0.
C18_PropagationRule == [][C18_StepFromPreviousField]_vars

\* a cell set by the start front in the last step although a cell of the
\* finish front, set earlier, is next to it
C18_Witness ==
    /\ pc = "loop"
    /\ \E c \in Cells(state) :
          /\ state[c[1]][c[2]] = step
          /\ step >= 2
          /\ \E d \in Cells(state) :
                /\ Adjacent(c, d)
                /\ state[d[1]][d[2]] < 0
                /\ -state[d[1]][d[2]] < step

At(st, c) == st[c[1]][c[2]]

C19_StartWalkMove ==
    (pc = "to_start" /\ pc' = "to_start" /\ path' # path)
        => /\ \E d \in Cells(state) : Adjacent(xy, d) /\ At(state, d) > 0
           /\ Adjacent(xy, xy')
           /\ At(state, xy') > 0
           /\ At(state, xy) > 0 => At(state, xy') = At(state, xy) - 1

C19_FinishWalkMove ==
    (pc = "to_finish" /\ pc' = "to_finish" /\ path' # path)
        => /\ \E d \in Cells(state) : Adjacent(xy, d) /\ At(state, d) < 0
           /\ Adjacent(xy, xy')
           /\ At(state, xy') < 0
           /\ At(state, xy) < 0 => At(state, xy') = At(state, xy) + 1

C19_NoRevisit ==
    pc \in {"to_start", "to_finish"}
        => \A i \in 1..Len(path) : \A j \in 1..Len(path) : path[i] = path[j] => i = j

C19_EndsOnSeeds ==
    ReturnedPath
        => /\ At(state, ret.path[1]) = 1
           /\ At(state, ret.path[Len(ret.path)]) = -1
           /\ \A i \in 1..Len(ret.path) : \A j \in 1..Len(ret.path) :
                 ret.path[i] = ret.path[j] => i = j

\* C19: during reconstruction every move finds a neighbour of the required
\* sign (no fall-back to (0,0)); on a cell of the seed's sign each move goes
\* to a cell whose magnitude is exactly 1 smaller; the start walk reaches the
\* +1 cell and the finish walk the -1 cell without revisiting any cell.
C19_WalksDescend ==
    /\ [](C19_NoRevisit /\ C19_EndsOnSeeds)
    /\ [][C19_StartWalkMove /\ C19_FinishWalkMove]_vars

\* a start walk that began on a cell of the finish front and has gone on
C19_Witness ==
    /\ pc = "to_start"
    /\ At(state, meetpoints[1]) < 0
    /\ Len(path) >= 3

Solving == pc \in {"loop", "found", "to_start", "to_finish", "returned"}

C20_TraceFollowsSteps ==
    (Solving /\ visualize)
        => /\ Len(states) = step
           /\ states[1] = InitialState(labyrinth_map)
           /\ states[Len(states)] = state
           /\ \A k \in 1..(Len(states) - 1) :
                 states[k + 1] = Propagated(states[k], wall_mask)
           /\ Returned => Len(states) = ret.step

C20_EarlierSnapshotsKept ==
    (Solving /\ visualize)
        => \A k \in 1..Len(states) : states'[k] = states[k]

\* C20: with visualize = True and an empty trace before the call, the trace
\* is the initial field followed by one snapshot per propagation step, in step
\* order, each equal to the field right after that step, so its length equals
\* the returned step count; later steps never alter an earlier snapshot.
C20_TraceOfSnapshots == [](C20_TraceFollowsSteps) /\ [][C20_EarlierSnapshotsKept]_vars

\* a call that returned after at least three propagation steps that each
\* changed the field
C20_Witness ==
    /\ Returned
    /\ visualize
    /\ Len(states) >= 4
    /\ \A k \in 1..3 : states[k] # states[k + 1]

====
